---- MODULE Spec2Model ----
(***************************************************************************)
(* Model of Coordinate_Transformation.py: elementary rotation builders,    *)
(* the CoordinateSystem and Object constructors, transform_point and       *)
(* transform_object, driven by a client that builds frames and objects and *)
(* calls the transforms.                                                   *)
(*                                                                         *)
(* Numbers.  The code computes in IEEE doubles.  The model computes over   *)
(* the integers, on angles that are whole multiples of 90 degrees, where   *)
(* the cosine and the sine are -1, 0 or 1, and over integer coordinates.   *)
(* The rounding of the doubles (cos(pi/2) is 6.1e-17, not 0) is not        *)
(* modelled: an equality of the model is the "approximately equal" of the  *)
(* floating-point program.  NaN is modelled, as one absorbing value.       *)
(***************************************************************************)
EXTENDS Integers, Sequences, FiniteSets, TLC

VARIABLES frames, objects, track, call

vars == <<frames, objects, track, call>>

(***************************************************************************)
(* Floating-point values: the integers and NaN.  NaN is coded as an        *)
(* integer no finite computation of the model reaches (see FiniteInRange). *)
(***************************************************************************)
NaN == 0 - 1000000

(***************************************************************************)
(* Bounds and input sets.                                                  *)
(***************************************************************************)
\* Longest chain of transform calls applied to one tracked point or object.
MaxCalls == 2

\* Multiples of 90 degrees given to the elementary builders: -MaxTurn..MaxTurn.
MaxTurn == 5

\* Angles given to the constructors.
Degs == {0, 90}

\* Angles given directly to rot_x, rot_y, rot_z.
RotDegs == {90 * k : k \in (0 - MaxTurn)..MaxTurn}

\* Origins of the frames; [10,5,3] is the origin of the self-test.
Origins == {<<0, 0, 0>>, <<10, 5, 3>>}

\* Points given to transform_point; [1,0,0] is the point of the self-test.
Points == {<<1, 0, 0>>, <<1, 2, 3>>}

\* Positions and angles given to the Object constructor.
ObjPoints == {<<1, 2, 3>>}

ObjDegs == {0, 270}

\* Malformed inputs: a non-finite angle or coordinate, a vector that does not
\* have 3 components.
RawDegs == {0, 90, NaN}

RawOrigins == {<<0, 0, 0>>, <<10, 5, 3>>, <<NaN, 0, 0>>, <<1, 2>>, <<5>>}

RawPoints == {<<1, 0, 0>>, <<1, NaN, 0>>, <<1, 2>>}

isnan(a) == a = NaN

fadd(a, b) == IF isnan(a) \/ isnan(b) THEN NaN ELSE a + b

fsub(a, b) == IF isnan(a) \/ isnan(b) THEN NaN ELSE a - b

fmul(a, b) == IF isnan(a) \/ isnan(b) THEN NaN ELSE a * b

fneg(a) == IF isnan(a) THEN NaN ELSE 0 - a

\* np.cos(np.radians(deg)) at a multiple of 90 degrees.
Cos(deg) ==
  IF isnan(deg) THEN NaN
  ELSE CASE deg % 360 = 0 -> 1
         [] deg % 360 = 90 -> 0
         [] deg % 360 = 180 -> 0 - 1
         [] deg % 360 = 270 -> 0

\* np.sin(np.radians(deg)) at a multiple of 90 degrees.
Sin(deg) ==
  IF isnan(deg) THEN NaN
  ELSE CASE deg % 360 = 0 -> 0
         [] deg % 360 = 90 -> 1
         [] deg % 360 = 180 -> 0
         [] deg % 360 = 270 -> 0 - 1

(***************************************************************************)
(* Arrays: a vector is a tuple, a matrix a tuple of rows.                  *)
(***************************************************************************)
dot(u, v) == fadd(fadd(fmul(u[1], v[1]), fmul(u[2], v[2])), fmul(u[3], v[3]))

column(M, j) == <<M[1][j], M[2][j], M[3][j]>>

transpose_identity(M) == M

\* M.T
transpose(M) == <<column(M, 1), column(M, 2), column(M, 3)>>

\* M @ v for a 3x3 matrix and a vector; numpy raises ValueError unless the
\* vector has 3 components.
matvec_raises(v) == Len(v) # 3

matvec(M, v) == <<dot(M[1], v), dot(M[2], v), dot(M[3], v)>>

\* A @ B for 3x3 matrices.
matmul(A, B) ==
  << <<dot(A[1], column(B, 1)), dot(A[1], column(B, 2)), dot(A[1], column(B, 3))>>,
     <<dot(A[2], column(B, 1)), dot(A[2], column(B, 2)), dot(A[2], column(B, 3))>>,
     <<dot(A[3], column(B, 1)), dot(A[3], column(B, 2)), dot(A[3], column(B, 3))>> >>

\* Broadcasting of u + v and u - v for 1-d arrays: the shapes agree, or one
\* of them has a single component, which is repeated; otherwise ValueError.
broadcast_raises(u, v) == Len(u) # Len(v) /\ Len(u) # 1 /\ Len(v) # 1

broadcast_len(u, v) == IF Len(u) >= Len(v) THEN Len(u) ELSE Len(v)

at(u, i) == IF Len(u) = 1 THEN u[1] ELSE u[i]

vadd(u, v) == [i \in 1..broadcast_len(u, v) |-> fadd(at(u, i), at(v, i))]

vsub(u, v) == [i \in 1..broadcast_len(u, v) |-> fsub(at(u, i), at(v, i))]

(***************************************************************************)
(* Rotation matrices (angles in degrees).                                  *)
(***************************************************************************)
rot_x_lefthanded(deg) ==
  << <<1, 0, 0>>,
     <<0, Cos(deg), Sin(deg)>>,
     <<0, fneg(Sin(deg)), Cos(deg)>> >>

rot_x(deg) ==
  << <<1, 0, 0>>,
     <<0, Cos(deg), fneg(Sin(deg))>>,
     <<0, Sin(deg), Cos(deg)>> >>

rot_y_unsigned(deg) ==
  << <<Cos(deg), 0, Sin(deg)>>,
     <<0, 1, 0>>,
     <<Sin(deg), 0, Cos(deg)>> >>

rot_y(deg) ==
  << <<Cos(deg), 0, Sin(deg)>>,
     <<0, 1, 0>>,
     <<fneg(Sin(deg)), 0, Cos(deg)>> >>

rot_z_lefthanded(deg) ==
  << <<Cos(deg), Sin(deg), 0>>,
     <<fneg(Sin(deg)), Cos(deg), 0>>,
     <<0, 0, 1>> >>

rot_z(deg) ==
  << <<Cos(deg), fneg(Sin(deg)), 0>>,
     <<Sin(deg), Cos(deg), 0>>,
     <<0, 0, 1>> >>

(***************************************************************************)
(* CoordinateSystem.__init__ and Object.__init__                           *)
(***************************************************************************)
CoordinateSystem_reversed(origin, x_deg, y_deg, z_deg) ==
  [origin |-> origin,
   R |-> matmul(matmul(rot_x(x_deg), rot_y(y_deg)), rot_z(z_deg))]

CoordinateSystem(origin, x_deg, y_deg, z_deg) ==
  [origin |-> origin,
   R |-> matmul(matmul(rot_z(z_deg), rot_y(y_deg)), rot_x(x_deg))]

Object(position, x_deg, y_deg, z_deg) ==
  [position |-> position,
   rotation |-> matmul(matmul(rot_z(z_deg), rot_y(y_deg)), rot_x(x_deg))]

(***************************************************************************)
(* transform_point                                                         *)
(***************************************************************************)
point_global_shifted(point, cs1) == matvec(cs1.R, vadd(cs1.origin, point))

\* point expressed in global coordinates
point_global(point, cs1) == vadd(cs1.origin, matvec(cs1.R, point))

\* The ValueError numpy raises on a shape mismatch: cs1.R @ point needs 3
\* components, then the sum and the difference broadcast against 3 components.
transform_point_raises(point, cs1, cs2) ==
  \/ matvec_raises(point)
  \/ broadcast_raises(cs1.origin, <<0, 0, 0>>)
  \/ broadcast_raises(<<0, 0, 0>>, cs2.origin)

transform_point_late_origin(point, cs1, cs2) ==
  vsub(matvec(transpose(cs2.R), point_global(point, cs1)), cs2.origin)

transform_point(point, cs1, cs2) ==
  matvec(transpose(cs2.R), vsub(point_global(point, cs1), cs2.origin))

(***************************************************************************)
(* transform_object                                                        *)
(***************************************************************************)
transform_object_raises(obj, cs1, cs2) ==
  transform_point_raises(obj.position, cs1, cs2)

transform_object_swapped(obj, cs1, cs2) ==
  LET new_position == transform_point(obj.position, cs1, cs2)
      rotation_global == matmul(obj.rotation, cs1.R)
      new_rotation == matmul(transpose(cs2.R), rotation_global)
      out == Object(new_position, 0, 0, 0)
  IN [out EXCEPT !.rotation = new_rotation]

transform_object(obj, cs1, cs2) ==
  LET new_position == transform_point(obj.position, cs1, cs2)
      rotation_global == matmul(cs1.R, obj.rotation)
      new_rotation == matmul(transpose(cs2.R), rotation_global)
      out == Object(new_position, 0, 0, 0)
  IN [out EXCEPT !.rotation = new_rotation]

heap_transform_object_inplace(heap, k, cs1, cs2) ==
  [heap |-> [heap EXCEPT ![k] = transform_object(heap[k], cs1, cs2)], out |-> k]

\* The instances after out = transform_object(heap[k], cs1, cs2): the result is
\* a new instance, `out` its identity.
heap_transform_object(heap, k, cs1, cs2) ==
  [heap |-> Append(heap, transform_object(heap[k], cs1, cs2)), out |-> Len(heap) + 1]

(***************************************************************************)
(* The client.  It may call the builders, it constructs the two frames cs1 *)
(* and cs2, and then it follows either a point or an object through a      *)
(* chain of transforms, each from a frame of its choice to a frame of its  *)
(* choice, applied to the result of the one before.  `frames` and          *)
(* `objects` hold the instances that exist; `track` holds the point or     *)
(* object the client started with and, for each transform of the chain,    *)
(* its frames and its result; `call` is the last call made: its name, its  *)
(* arguments and what it returned, or that it raised.                      *)
(***************************************************************************)
Names == {"cs1", "cs2"}

Init ==
  /\ frames = <<>>
  /\ objects = <<>>
  /\ track = <<>>
  /\ call = [op |-> "none", raised |-> FALSE]

RotX(deg) ==
  /\ DOMAIN frames = {}
  /\ call' = [op |-> "rot_x", deg |-> deg, raised |-> FALSE, ret |-> rot_x(deg)]
  /\ UNCHANGED <<frames, objects, track>>

RotY(deg) ==
  /\ DOMAIN frames = {}
  /\ call' = [op |-> "rot_y", deg |-> deg, raised |-> FALSE, ret |-> rot_y(deg)]
  /\ UNCHANGED <<frames, objects, track>>

RotZ(deg) ==
  /\ DOMAIN frames = {}
  /\ call' = [op |-> "rot_z", deg |-> deg, raised |-> FALSE, ret |-> rot_z(deg)]
  /\ UNCHANGED <<frames, objects, track>>

\* name = CoordinateSystem(origin, x_deg, y_deg, z_deg)
MakeFrame(name, origin, x_deg, y_deg, z_deg) ==
  /\ name \notin DOMAIN frames
  /\ objects = <<>>
  /\ track = <<>>
  /\ frames' = frames @@ (name :> CoordinateSystem(origin, x_deg, y_deg, z_deg))
  /\ call' = [op |-> "CoordinateSystem", name |-> name, origin |-> origin,
              x_deg |-> x_deg, y_deg |-> y_deg, z_deg |-> z_deg,
              raised |-> FALSE, ret |-> frames'[name]]
  /\ UNCHANGED <<objects, track>>

\* p = [x, y, z]
NewPoint(p) ==
  /\ DOMAIN frames = Names
  /\ objects = <<>>
  /\ track = <<>>
  /\ track' = <<[cs1 |-> "", cs2 |-> "", point |-> p]>>
  /\ call' = [op |-> "point", raised |-> FALSE, ret |-> p]
  /\ UNCHANGED <<frames, objects>>

\* result = transform_point(p, frames[from], frames[to]), p the followed point
TransformPoint(from, to) ==
  /\ track # <<>>
  /\ objects = <<>>
  /\ Len(track) <= MaxCalls
  /\ LET point == track[Len(track)].point
         cs1 == frames[from]
         cs2 == frames[to]
         raised == transform_point_raises(point, cs1, cs2)
     IN \E ret \in {IF raised THEN <<>> ELSE transform_point(point, cs1, cs2)} :
          /\ call' = [op |-> "transform_point", point |-> point,
                      cs1 |-> from, cs2 |-> to, raised |-> raised, ret |-> ret]
          /\ track' = IF raised THEN track
                      ELSE Append(track, [cs1 |-> from, cs2 |-> to, point |-> ret])
  /\ UNCHANGED <<frames, objects>>

\* obj = Object(position, x_deg, y_deg, z_deg)
MakeObject(position, x_deg, y_deg, z_deg) ==
  /\ DOMAIN frames = Names
  /\ objects = <<>>
  /\ track = <<>>
  /\ objects' = <<Object(position, x_deg, y_deg, z_deg)>>
  /\ track' = <<[cs1 |-> "", cs2 |-> "", id |-> 1]>>
  /\ call' = [op |-> "Object", position |-> position,
              x_deg |-> x_deg, y_deg |-> y_deg, z_deg |-> z_deg,
              raised |-> FALSE, ret |-> 1]
  /\ UNCHANGED frames

\* out = transform_object(obj, frames[from], frames[to]), obj the followed
\* object
TransformObject(from, to) ==
  /\ objects # <<>>
  /\ Len(track) <= MaxCalls
  /\ LET id == track[Len(track)].id
         cs1 == frames[from]
         cs2 == frames[to]
         raised == transform_object_raises(objects[id], cs1, cs2)
     IN \E after \in {IF raised THEN [heap |-> objects, out |-> 0]
                       ELSE heap_transform_object(objects, id, cs1, cs2)} :
          /\ objects' = after.heap
          /\ call' = [op |-> "transform_object", obj |-> id,
                      cs1 |-> from, cs2 |-> to, raised |-> raised,
                      ret |-> after.out]
          /\ track' = IF raised THEN track
                      ELSE Append(track, [cs1 |-> from, cs2 |-> to, id |-> after.out])
  /\ UNCHANGED frames

\* Well-formed inputs: finite angles, vectors of 3 finite coordinates.
Next ==
  \/ \E deg \in RotDegs : RotX(deg)
  \/ \E deg \in RotDegs : RotY(deg)
  \/ \E deg \in RotDegs : RotZ(deg)
  \/ \E name \in Names, origin \in Origins, x_deg, y_deg, z_deg \in Degs :
       MakeFrame(name, origin, x_deg, y_deg, z_deg)
  \/ \E p \in Points : NewPoint(p)
  \/ \E from, to \in Names : TransformPoint(from, to)
  \/ \E position \in ObjPoints, x_deg, y_deg, z_deg \in ObjDegs :
       MakeObject(position, x_deg, y_deg, z_deg)
  \/ \E from, to \in Names : TransformObject(from, to)

Spec == Init /\ [][Next]_vars

\* The same client, giving malformed inputs as well.
NextRaw ==
  \/ \E deg \in RawDegs : RotX(deg)
  \/ \E deg \in RawDegs : RotY(deg)
  \/ \E deg \in RawDegs : RotZ(deg)
  \/ \E name \in Names, origin \in RawOrigins, z_deg \in RawDegs :
       MakeFrame(name, origin, 0, 0, z_deg)
  \/ \E p \in RawPoints : NewPoint(p)
  \/ \E from, to \in Names : TransformPoint(from, to)
  \/ \E position \in RawPoints, z_deg \in RawDegs : MakeObject(position, 0, 0, z_deg)
  \/ \E from, to \in Names : TransformObject(from, to)

SpecRaw == Init /\ [][NextRaw]_vars

(***************************************************************************)
(* Properties.  They are written with plain integer arithmetic on the      *)
(* entries, not with the operators that model the code.                    *)
(***************************************************************************)
Identity3 == << <<1, 0, 0>>, <<0, 1, 0>>, <<0, 0, 1>> >>

Axes == {<<1, 0, 0>>, <<0, 1, 0>>, <<0, 0, 1>>}

Det(M) ==
  M[1][1] * (M[2][2] * M[3][3] - M[2][3] * M[3][2])
  - M[1][2] * (M[2][1] * M[3][3] - M[2][3] * M[3][1])
  + M[1][3] * (M[2][1] * M[3][2] - M[2][2] * M[3][1])

\* M . M^T = I and det(M) = +1
IsProperRotation(M) ==
  /\ \A i, j \in 1..3 :
       M[i][1] * M[j][1] + M[i][2] * M[j][2] + M[i][3] * M[j][3]
         = IF i = j THEN 1 ELSE 0
  /\ Det(M) = 1

\* (M . v)[i]
Row(M, i, v) == M[i][1] * v[1] + M[i][2] * v[2] + M[i][3] * v[3]

\* c2.R^T . ((c1.origin + c1.R . p) - c2.origin)
ExpectedPoint(p, c1, c2) ==
  LET g == [j \in 1..3 |-> c1.origin[j] + Row(c1.R, j, p) - c2.origin[j]]
  IN [i \in 1..3 |-> c2.R[1][i] * g[1] + c2.R[2][i] * g[2] + c2.R[3][i] * g[3]]

\* c2.R^T . (c1.R . r)
ExpectedRotation(r, c1, c2) ==
  LET g == [k \in 1..3 |-> [j \in 1..3 |->
               c1.R[k][1] * r[1][j] + c1.R[k][2] * r[2][j] + c1.R[k][3] * r[3][j]]]
  IN [i \in 1..3 |-> [j \in 1..3 |->
        c2.R[1][i] * g[1][j] + c2.R[2][i] * g[2][j] + c2.R[3][i] * g[3][j]]]

\* rot_z(z_deg) . rot_y(y_deg) . rot_x(x_deg)
ExpectedOrientation(x_deg, y_deg, z_deg) ==
  LET Z == rot_z(z_deg)
      Y == rot_y(y_deg)
      X == rot_x(x_deg)
      Sum3(f) == f[1] + f[2] + f[3]
  IN [i \in 1..3 |-> [j \in 1..3 |->
        Sum3([k \in 1..3 |-> Sum3([l \in 1..3 |-> Z[i][k] * Y[k][l] * X[l][j]])])]]

\* The NaN code is not a value a finite computation produces.
FiniteInRange ==
  LET small(v) == \A i \in DOMAIN v : isnan(v[i]) \/ (v[i] > 0 - 100000 /\ v[i] < 100000)
  IN /\ \A n \in DOMAIN frames : small(frames[n].origin)
     /\ \A k \in DOMAIN objects : small(objects[k].position)
     /\ call.op = "transform_point" => small(call.ret)

\* No NaN arises from well-formed inputs.
NoNaN ==
  LET finite(v) == \A i \in DOMAIN v : ~isnan(v[i])
      finiteM(M) == \A i \in DOMAIN M : finite(M[i])
  IN /\ \A n \in DOMAIN frames : finite(frames[n].origin) /\ finiteM(frames[n].R)
     /\ \A k \in DOMAIN objects : finite(objects[k].position) /\ finiteM(objects[k].rotation)
     /\ call.op = "transform_point" => finite(call.ret)

PointCall == call.op = "transform_point" /\ ~call.raised

ObjectCall == call.op = "transform_object" /\ ~call.raised

\* C1: transform_point(p, cs1, cs2) returns
\* cs2.R^T . ((cs1.origin + cs1.R . p) - cs2.origin): the point is expressed in
\* the global frame and then in the target frame.
C1_PointFormula ==
  PointCall =>
    call.ret = ExpectedPoint(call.point, frames[call.cs1], frames[call.cs2])

\* A point taken between two frames that differ in origin and orientation,
\* neither of them the global frame's orientation.
C1_Witness ==
  /\ PointCall
  /\ call.cs1 = "cs1" /\ call.cs2 = "cs2"
  /\ frames["cs1"].origin # frames["cs2"].origin
  /\ frames["cs1"].R # frames["cs2"].R
  /\ frames["cs1"].R # Identity3 /\ frames["cs2"].R # Identity3
  /\ call.ret # call.point

\* C2: transform_object(obj, cs1, cs2) returns an object whose position is
\* transform_point(obj.position, cs1, cs2) and whose rotation is
\* cs2.R^T . (cs1.R . obj.rotation).
C2_ObjectFormula ==
  ObjectCall =>
    LET obj == objects[call.obj]
        out == objects[call.ret]
        cs1 == frames[call.cs1]
        cs2 == frames[call.cs2]
    IN /\ out.position = transform_point(obj.position, cs1, cs2)
       /\ out.position = ExpectedPoint(obj.position, cs1, cs2)
       /\ out.rotation = ExpectedRotation(obj.rotation, cs1, cs2)

\* A rotated object taken between two differently rotated frames.
C2_Witness ==
  /\ ObjectCall
  /\ call.cs1 # call.cs2
  /\ objects[call.obj].rotation # Identity3
  /\ frames["cs1"].R # Identity3 /\ frames["cs2"].R # Identity3
  /\ frames["cs1"].R # frames["cs2"].R
  /\ frames["cs1"].origin # frames["cs2"].origin
  /\ objects[call.ret].rotation # objects[call.obj].rotation
  /\ objects[call.ret].position # objects[call.obj].position

\* C3: a point transformed from one frame to another and then back is the
\* original point.
C3_InverseRoundTrip ==
  objects = <<>> =>
    \A n \in 3..Len(track) :
      (track[n].cs1 = track[n - 1].cs2 /\ track[n].cs2 = track[n - 1].cs1)
        => track[n].point = track[n - 2].point

\* cs1 -> cs2 -> cs1 between two different frames, the point having changed
\* on the way.
C3_Witness ==
  /\ objects = <<>>
  /\ Len(track) = 3
  /\ track[2].cs1 = "cs1" /\ track[2].cs2 = "cs2"
  /\ track[3].cs1 = "cs2" /\ track[3].cs2 = "cs1"
  /\ frames["cs1"].origin # frames["cs2"].origin
  /\ frames["cs1"].R # frames["cs2"].R
  /\ frames["cs1"].R # Identity3 /\ frames["cs2"].R # Identity3
  /\ track[2].point # track[1].point

\* C4: a point transformed from a frame to the same frame is unchanged.
C4_IdentityRoundTrip ==
  (PointCall /\ frames[call.cs1] = frames[call.cs2]) => call.ret = call.point

\* The frame is neither at the global origin nor in the global orientation.
C4_Witness ==
  /\ PointCall
  /\ call.cs1 = call.cs2
  /\ frames[call.cs1].origin = <<10, 5, 3>>
  /\ frames[call.cs1].R # Identity3
  /\ call.point = <<1, 2, 3>>

\* The scenario of C5: both frames at the origin, cs1 built with angles
\* (0,0,0), cs2 with (0,0,90), and [1,0,0] taken from cs1 to cs2.
C5_Scenario ==
  /\ PointCall
  /\ frames["cs1"] = CoordinateSystem(<<0, 0, 0>>, 0, 0, 0)
  /\ frames["cs2"] = CoordinateSystem(<<0, 0, 0>>, 0, 0, 90)
  /\ call.point = <<1, 0, 0>>
  /\ call.cs1 = "cs1" /\ call.cs2 = "cs2"

\* C5 as stated: in that scenario transform_point yields [0,1,0].
C5_Original == C5_Scenario => call.ret = <<0, 1, 0>>

\* C5 amended: in that scenario transform_point yields [0,-1,0].
C5_Amended == C5_Scenario => call.ret = <<0, 0 - 1, 0>>

C5_Witness == C5_Scenario /\ call.ret = <<0, 0 - 1, 0>>

\* C6: a transform call leaves every existing frame, object and point as it
\* was, and transform_object returns a new instance, not its argument.
C6_Step ==
  call'.op \in {"transform_point", "transform_object"} =>
    /\ DOMAIN frames' = DOMAIN frames
    /\ \A n \in DOMAIN frames : frames'[n] = frames[n]
    /\ Len(objects') >= Len(objects)
    /\ \A k \in DOMAIN objects : objects'[k] = objects[k]
    /\ Len(track') >= Len(track)
    /\ \A k \in DOMAIN track : track'[k] = track[k]
    /\ (call'.op = "transform_object" /\ ~call'.raised) =>
         /\ call'.ret \notin DOMAIN objects
         /\ call'.ret # call'.obj
         /\ call'.ret \in DOMAIN objects'

C6_NoMutation == [][C6_Step]_vars

\* Two transform_object calls made, the second within one frame, the first
\* having produced an object that differs from its argument.
C6_Witness ==
  /\ ObjectCall
  /\ call.cs1 = call.cs2
  /\ Len(objects) = 3
  /\ objects[2] # objects[1]
  /\ frames["cs1"] # frames["cs2"]

\* C7: every rotation matrix the program produces is a proper rotation: what
\* rot_x, rot_y and rot_z return, the orientation of every frame and the
\* rotation of every object, also after transform_object calls.
C7_ProperRotations ==
  /\ call.op \in {"rot_x", "rot_y", "rot_z"} => IsProperRotation(call.ret)
  /\ \A n \in DOMAIN frames : IsProperRotation(frames[n].R)
  /\ \A k \in DOMAIN objects : IsProperRotation(objects[k].rotation)

\* An object after two transform_object calls, its rotation different at
\* every stage.
C7_Witness ==
  /\ Len(objects) = 3
  /\ objects[1].rotation # Identity3
  /\ objects[2].rotation # objects[1].rotation
  /\ objects[3].rotation # objects[2].rotation
  /\ objects[3].rotation # objects[1].rotation
  /\ objects[3].rotation # Identity3

\* C8: both constructors set the matrix to rot_z(z_deg) . rot_y(y_deg) .
\* rot_x(x_deg), in that order: a frame and an object built from the same
\* angles have the same matrix, the identity when the angles are 0.
C8_Orientation ==
  /\ call.op = "CoordinateSystem" =>
       /\ call.ret.R = ExpectedOrientation(call.x_deg, call.y_deg, call.z_deg)
       /\ call.ret.R = Object(call.origin, call.x_deg, call.y_deg, call.z_deg).rotation
       /\ (call.x_deg = 0 /\ call.y_deg = 0 /\ call.z_deg = 0) => call.ret.R = Identity3
  /\ call.op = "Object" =>
       /\ objects[call.ret].rotation
            = ExpectedOrientation(call.x_deg, call.y_deg, call.z_deg)
       /\ objects[call.ret].rotation
            = CoordinateSystem(call.position, call.x_deg, call.y_deg, call.z_deg).R
       /\ (call.x_deg = 0 /\ call.y_deg = 0 /\ call.z_deg = 0) =>
            objects[call.ret].rotation = Identity3

\* A frame built from angles whose rotations do not commute: rot_x(90) .
\* rot_z(90) would be [[0,-1,0],[0,0,-1],[1,0,0]].
C8_Witness ==
  /\ call.op = "CoordinateSystem"
  /\ call.x_deg = 90 /\ call.y_deg = 0 /\ call.z_deg = 90
  /\ call.ret.R = << <<0, 0, 1>>, <<1, 0, 0>>, <<0, 1, 0>> >>

\* The block [[cos, -sin], [sin, cos]] in the axes a and b of M, for deg.
Block(M, a, b, deg) ==
  /\ M[a][a] = Cos(deg) /\ M[a][b] = 0 - Sin(deg)
  /\ M[b][a] = Sin(deg) /\ M[b][b] = Cos(deg)

\* M is the identity on the axis n: row and column n are the unit vector, and
\* the component n of a vector is unaffected.
FixesAxis(M, n) ==
  /\ \A k \in 1..3 : M[n][k] = (IF k = n THEN 1 ELSE 0)
                     /\ M[k][n] = (IF k = n THEN 1 ELSE 0)
  /\ \A v \in Points \cup Origins \cup Axes : Row(M, n, v) = v[n]

\* M maps the vector u to the vector w.
Maps(M, u, w) == \A i \in 1..3 : Row(M, i, u) = w[i]

\* C9: each builder returns the right-handed rotation about its axis: the
\* block [[cos, -sin], [sin, cos]] in the two other axes, the identity on its
\* own; at 90 degrees rot_x maps +Y to +Z, rot_y +Z to +X, rot_z +X to +Y.
C9_RightHanded ==
  /\ call.op = "rot_x" =>
       /\ Block(call.ret, 2, 3, call.deg)
       /\ FixesAxis(call.ret, 1)
       /\ call.deg = 90 => Maps(call.ret, <<0, 1, 0>>, <<0, 0, 1>>)
  /\ call.op = "rot_y" =>
       /\ Block(call.ret, 3, 1, call.deg)
       /\ FixesAxis(call.ret, 2)
       /\ call.deg = 90 => Maps(call.ret, <<0, 0, 1>>, <<1, 0, 0>>)
  /\ call.op = "rot_z" =>
       /\ Block(call.ret, 1, 2, call.deg)
       /\ FixesAxis(call.ret, 3)
       /\ call.deg = 90 => Maps(call.ret, <<1, 0, 0>>, <<0, 1, 0>>)

C9_Witness == call.op = "rot_x" /\ call.deg = 90 /\ call.ret[3][2] = 1

\* A vector that does not have 3 components, or has a non-finite one.
Malformed(v) == Len(v) # 3 \/ \E i \in DOMAIN v : isnan(v[i])

\* The last call was a constructor or a transform given a non-finite angle or
\* a malformed vector.
InvalidCall ==
  \/ /\ call.op = "CoordinateSystem"
     /\ Malformed(call.origin) \/ isnan(call.x_deg) \/ isnan(call.y_deg) \/ isnan(call.z_deg)
  \/ /\ call.op = "Object"
     /\ Malformed(call.position) \/ isnan(call.x_deg) \/ isnan(call.y_deg) \/ isnan(call.z_deg)
  \/ call.op = "transform_point" /\ Malformed(call.point)
  \/ call.op = "transform_object" /\ Malformed(objects[call.obj].position)

\* C10: a constructor or a transform given invalid input fails with an error
\* instead of returning a result.
C10_FailFast == InvalidCall => call.raised

====
